---- MODULE Spec2Model ----
(***************************************************************************)
(* A model of the symbol collision index of mapbox-gl-js                   *)
(* (src/symbol/collision_index.js).                                        *)
(*                                                                         *)
(* Numbers.  The program computes in IEEE doubles; the model computes in   *)
(* exact integers (grid pixels), and every input set below is chosen so    *)
(* that each division the program performs on it is exact.                 *)
(***************************************************************************)
EXTENDS Integers, Sequences, FiniteSets, TLC

VARIABLES
    grid,           \* this.grid: the occlusion grid
    ignoredGrid,    \* this.ignoredGrid
    ret,            \* the last call: its name, its arguments and what it returned
    log,            \* the insert calls made so far, in order, with their arguments
    run             \* the placement pass that drives the index (SpecOrder)

vars == <<grid, ignoredGrid, ret, log, run>>

(***************************************************************************)
(* Program constants and the camera transform the index is built for.      *)
(***************************************************************************)
viewportPadding == 100

TransformWidth == 800
TransformHeight == 600
CameraToCenterDistance == 1200

screenRightBoundary == TransformWidth + viewportPadding
screenBottomBoundary == TransformHeight + viewportPadding
gridRightBoundary == TransformWidth + 2 * viewportPadding
gridBottomBoundary == TransformHeight + 2 * viewportPadding

(***************************************************************************)
(* Bounds of the model.                                                    *)
(***************************************************************************)
MaxEntries == 2
MaxEdgeEntries == 1
MaxCircleCalls == 1
MaxIndexCalls == 2
MaxDebugCalls == 1
MaxQueryEntries == 2
MaxInsertCalls == 2
ClipMargin == 2
ClipWidth == 4
ClipHeight == 3

(***************************************************************************)
(* Small arithmetic helpers.                                               *)
(***************************************************************************)
Min(a, b) == IF a < b THEN a ELSE b
Max(a, b) == IF a > b THEN a ELSE b
Abs(a) == IF a < 0 THEN -a ELSE a
Sq(a) == a * a

\* Op applied to the value of v, computed once: an assignment to a local.
With(v, Op(_)) == CHOOSE r \in { Op(x) : x \in {v} } : TRUE

\* A for loop over seq that carries a value from one pass to the next: the
\* value after the last pass.  Each pass sees the value of the pass before.
Fold(Op(_, _), init, seq) ==
    LET F[i \in 0..Len(seq)] ==
            IF i = 0 THEN init
            ELSE With(F[i - 1], LAMBDA acc : Op(acc, seq[i]))
    IN  F[Len(seq)]

(***************************************************************************)
(* The spatial grid (grid_index.js, an external collaborator of the index):*)
(* a sequence of entries in insertion order.  A box entry carries its      *)
(* rectangle, a circle entry its centre and radius and its bounding box.   *)
(***************************************************************************)
Key(b, f, g) == [bucketInstanceId |-> b, featureIndex |-> f, collisionGroupID |-> g]

BoxEntry(key, x1, y1, x2, y2) ==
    [key |-> key, circle |-> FALSE, x1 |-> x1, y1 |-> y1, x2 |-> x2, y2 |-> y2,
     cx |-> 0, cy |-> 0, r |-> 0]

CircleEntry(key, x, y, radius) ==
    [key |-> key, circle |-> TRUE, x1 |-> x - radius, y1 |-> y - radius,
     x2 |-> x + radius, y2 |-> y + radius, cx |-> x, cy |-> y, r |-> radius]

EmptyGrid == << >>

GridInsert(g, key, x1, y1, x2, y2) == Append(g, BoxEntry(key, x1, y1, x2, y2))

GridInsertCircle(g, key, x, y, radius) == Append(g, CircleEntry(key, x, y, radius))

GridKeysLength(g) == Len(g)

\* A collision group predicate: absent (every key passes), or "the key's
\* collision group is `group`".
NoPredicate == [has |-> FALSE, group |-> 0]
GroupPredicate(g) == [has |-> TRUE, group |-> g]
Accepts(pred, key) == (~pred.has) \/ key.collisionGroupID = pred.group

RectsIntersect(ax1, ay1, ax2, ay2, bx1, by1, bx2, by2) ==
    ax1 <= bx2 /\ ay1 <= by2 /\ ax2 >= bx1 /\ ay2 >= by1

\* Squared distance from the point (x, y) to the rectangle.
DistSqToRect(x, y, x1, y1, x2, y2) ==
    Sq(Max(Max(x1 - x, 0), x - x2)) + Sq(Max(Max(y1 - y, 0), y - y2))

CircleIntersectsRect(x, y, radius, x1, y1, x2, y2) ==
    DistSqToRect(x, y, x1, y1, x2, y2) <= Sq(radius)

CirclesIntersect(ax, ay, ar, bx, by, br) ==
    Sq(ax - bx) + Sq(ay - by) <= Sq(ar + br)

EntryIntersectsRect(e, x1, y1, x2, y2) ==
    IF e.circle
    THEN CircleIntersectsRect(e.cx, e.cy, e.r, x1, y1, x2, y2)
    ELSE RectsIntersect(x1, y1, x2, y2, e.x1, e.y1, e.x2, e.y2)

EntryIntersectsCircle(e, x, y, radius) ==
    IF e.circle
    THEN CirclesIntersect(x, y, radius, e.cx, e.cy, e.r)
    ELSE CircleIntersectsRect(x, y, radius, e.x1, e.y1, e.x2, e.y2)

GridHitTest(g, x1, y1, x2, y2, pred) ==
    \E i \in DOMAIN g : Accepts(pred, g[i].key) /\ EntryIntersectsRect(g[i], x1, y1, x2, y2)

GridHitTestCircle(g, x, y, radius, pred) ==
    \E i \in DOMAIN g : Accepts(pred, g[i].key) /\ EntryIntersectsCircle(g[i], x, y, radius)

EntryInRange(e, x1, y1, x2, y2) == RectsIntersect(x1, y1, x2, y2, e.x1, e.y1, e.x2, e.y2)

GridQuery(g, x1, y1, x2, y2) == SelectSeq(g, LAMBDA e : EntryInRange(e, x1, y1, x2, y2))

(***************************************************************************)
(* Projection.  p = <<p0, p1, p3>> is the clip-space vector that           *)
(* xyTransformMat4 produces for the anchor under posMatrix.                *)
(***************************************************************************)
perspectiveRatioOf(p) == (p[3] + CameraToCenterDistance) \div (2 * p[3])

projectAndGetPerspectiveRatio(p) ==
    [point |-> [x |-> ((p[1] + p[3]) * TransformWidth) \div (2 * p[3]) + viewportPadding,
                y |-> ((p[3] - p[2]) * TransformHeight) \div (2 * p[3]) + viewportPadding],
     perspectiveRatio |-> perspectiveRatioOf(p)]

(***************************************************************************)
(* isOffscreen, isInsideGrid.                                              *)
(***************************************************************************)
isOffscreen(x1, y1, x2, y2) ==
    x2 < viewportPadding \/ x1 >= screenRightBoundary
        \/ y2 < viewportPadding \/ y1 > screenBottomBoundary

isInsideGrid(x1, y1, x2, y2) ==
    x2 >= 0 /\ x1 < gridRightBoundary /\ y2 >= 0 /\ y1 < gridBottomBoundary

(***************************************************************************)
(* placeCollisionBox: the returned {box, offscreen} and the grids it       *)
(* leaves behind.                                                          *)
(***************************************************************************)
ProjectedBox(collisionBox, textPixelRatio, p) ==
    LET projectedPoint == projectAndGetPerspectiveRatio(p)
        tileToViewport == textPixelRatio * projectedPoint.perspectiveRatio
    IN  <<collisionBox.x1 * tileToViewport + projectedPoint.point.x,
          collisionBox.y1 * tileToViewport + projectedPoint.point.y,
          collisionBox.x2 * tileToViewport + projectedPoint.point.x,
          collisionBox.y2 * tileToViewport + projectedPoint.point.y>>

\* Mutant: the hit test is made without the collision group predicate.
placeCollisionBox_noPredicate(g, ig, collisionBox, allowOverlap, textPixelRatio, p, pred) ==
    LET b == ProjectedBox(collisionBox, textPixelRatio, p)
    IN  IF (~isInsideGrid(b[1], b[2], b[3], b[4]))
            \/ ((~allowOverlap) /\ GridHitTest(g, b[1], b[2], b[3], b[4], NoPredicate))
        THEN [grid |-> g, ignoredGrid |-> ig, box |-> << >>, offscreen |-> FALSE]
        ELSE [grid |-> g, ignoredGrid |-> ig, box |-> b,
              offscreen |-> isOffscreen(b[1], b[2], b[3], b[4])]

\* Mutant: allowOverlap is not consulted.
placeCollisionBox_alwaysTests(g, ig, collisionBox, allowOverlap, textPixelRatio, p, pred) ==
    LET b == ProjectedBox(collisionBox, textPixelRatio, p)
    IN  IF (~isInsideGrid(b[1], b[2], b[3], b[4]))
            \/ GridHitTest(g, b[1], b[2], b[3], b[4], pred)
        THEN [grid |-> g, ignoredGrid |-> ig, box |-> << >>, offscreen |-> FALSE]
        ELSE [grid |-> g, ignoredGrid |-> ig, box |-> b,
              offscreen |-> isOffscreen(b[1], b[2], b[3], b[4])]

\* Mutant: a box that is placed is entered into the occlusion grid at once.
placeCollisionBox_inserts(g, ig, collisionBox, allowOverlap, textPixelRatio, p, pred) ==
    LET b == ProjectedBox(collisionBox, textPixelRatio, p)
    IN  IF (~isInsideGrid(b[1], b[2], b[3], b[4]))
            \/ ((~allowOverlap) /\ GridHitTest(g, b[1], b[2], b[3], b[4], pred))
        THEN [grid |-> g, ignoredGrid |-> ig, box |-> << >>, offscreen |-> FALSE]
        ELSE [grid |-> GridInsert(g, Key(0, 0, 0), b[1], b[2], b[3], b[4]),
              ignoredGrid |-> ig, box |-> b,
              offscreen |-> isOffscreen(b[1], b[2], b[3], b[4])]

placeCollisionBox(g, ig, collisionBox, allowOverlap, textPixelRatio, p, pred) ==
    LET b == ProjectedBox(collisionBox, textPixelRatio, p)
    IN  IF (~isInsideGrid(b[1], b[2], b[3], b[4]))
            \/ ((~allowOverlap) /\ GridHitTest(g, b[1], b[2], b[3], b[4], pred))
        THEN [grid |-> g, ignoredGrid |-> ig, box |-> << >>, offscreen |-> FALSE]
        ELSE [grid |-> g, ignoredGrid |-> ig, box |-> b,
              offscreen |-> isOffscreen(b[1], b[2], b[3], b[4])]

(***************************************************************************)
(* insertCollisionBox.                                                     *)
(***************************************************************************)
\* Mutant: the two grids are selected the wrong way round.
insertCollisionBox_swapped(g, ig, collisionBox, ignorePlacement, key) ==
    IF ~ignorePlacement
    THEN [grid |-> g,
          ignoredGrid |-> GridInsert(ig, key, collisionBox[1], collisionBox[2],
                                     collisionBox[3], collisionBox[4])]
    ELSE [grid |-> GridInsert(g, key, collisionBox[1], collisionBox[2],
                              collisionBox[3], collisionBox[4]),
          ignoredGrid |-> ig]

insertCollisionBox(g, ig, collisionBox, ignorePlacement, key) ==
    IF ignorePlacement
    THEN [grid |-> g,
          ignoredGrid |-> GridInsert(ig, key, collisionBox[1], collisionBox[2],
                                     collisionBox[3], collisionBox[4])]
    ELSE [grid |-> GridInsert(g, key, collisionBox[1], collisionBox[2],
                              collisionBox[3], collisionBox[4]),
          ignoredGrid |-> ig]

(***************************************************************************)
(* clipLine.  Points are records [x, y].  The parameters tMin and tMax of  *)
(* the program are distances along the segment; the model keeps them as    *)
(* fractions n / d of the segment length (t / len), which is what the      *)
(* program's comparisons and its final start + startToEnd * (t / len) use. *)
(* d = 0 stands for Number.MAX_VALUE.  For integer end points less than    *)
(* 10^5 apart, Math.abs(dir) < epsilon holds exactly when the component is *)
(* zero, and len < epsilon exactly when the end points coincide.           *)
(***************************************************************************)
Pt(x, y) == [x |-> x, y |-> y]
Null == << >>

Frac(n, d) == IF d < 0 THEN [n |-> -n, d |-> -d] ELSE [n |-> n, d |-> d]
FracLess(a, b) == a.n * b.d < b.n * a.d
FracZero == [n |-> 0, d |-> 1]
FracOne == [n |-> 1, d |-> 1]
FracMaxValue == [n |-> 1, d |-> 0]
FracMin(a, b) == IF FracLess(b, a) THEN b ELSE a

LEFT == 1
RIGHT == 2
BOTTOM == 4
TOP == 8

computeRegion(point, min, max) ==
    (IF point.x < min.x THEN LEFT ELSE 0) + (IF point.x > max.x THEN RIGHT ELSE 0)
        + (IF point.y < min.y THEN TOP ELSE 0) + (IF point.y > max.y THEN BOTTOM ELSE 0)

\* One slab check: t is the pair [tMin, tMax] before, and the result carries
\* the pair after and what the check returned.
slabCheckOnAxis(t, dirVec, minVec, maxVec, startVec) ==
    IF dirVec = 0
    THEN [ok |-> ~(startVec < minVec \/ startVec > maxVec), tMin |-> t.tMin, tMax |-> t.tMax]
    ELSE LET a == Frac(minVec - startVec, dirVec)
             b == Frac(maxVec - startVec, dirVec)
             t1 == IF FracLess(b, a) THEN b ELSE a
             t2 == IF FracLess(b, a) THEN a ELSE b
             tMin == IF FracLess(t.tMin, t1) THEN t1 ELSE t.tMin
             tMax == IF FracLess(t2, t.tMax) THEN t2 ELSE t.tMax
         IN  [ok |-> ~(FracLess(tMax, tMin) \/ FracLess(tMax, FracZero)),
              tMin |-> tMin, tMax |-> tMax]

\* The decision of clipLine and, when it clips, the clamped parameters.
clipParams(start, end, minBoundary, maxBoundary) ==
    LET startRegion == computeRegion(start, minBoundary, maxBoundary)
        endRegion == computeRegion(end, minBoundary, maxBoundary)
        dx == end.x - start.x
        dy == end.y - start.y
        t0 == [ok |-> TRUE, tMin |-> FracZero, tMax |-> FracMaxValue]
        tx == slabCheckOnAxis(t0, dx, minBoundary.x, maxBoundary.x, start.x)
        ty == slabCheckOnAxis(tx, dy, minBoundary.y, maxBoundary.y, start.y)
    IN  IF startRegion = 0 /\ endRegion = 0 THEN [kind |-> "inside"]
        ELSE IF startRegion = endRegion THEN [kind |-> "null"]
        ELSE IF dx = 0 /\ dy = 0 THEN [kind |-> "inside"]
        ELSE IF ~tx.ok THEN [kind |-> "null"]
        ELSE IF ~ty.ok THEN [kind |-> "null"]
        ELSE [kind |-> "clipped", tMin |-> FracMin(ty.tMin, FracOne),
              tMax |-> FracMin(ty.tMax, FracOne)]

\* start.add(startToEnd.mult(t / len))
PointAt(start, end, t) ==
    Pt(start.x + ((end.x - start.x) * t.n) \div t.d,
       start.y + ((end.y - start.y) * t.n) \div t.d)

clipLine(start, end, minBoundary, maxBoundary) ==
    With(clipParams(start, end, minBoundary, maxBoundary), LAMBDA c :
        IF c.kind = "inside" THEN <<start, end>>
        ELSE IF c.kind = "null" THEN Null
        ELSE <<PointAt(start, end, c.tMin), PointAt(start, end, c.tMax)>>)

\* The divisions of PointAt are exact for this segment.
ClipExact(start, end, minBoundary, maxBoundary) ==
    LET c == clipParams(start, end, minBoundary, maxBoundary)
    IN  c.kind = "clipped" =>
            \A t \in {c.tMin, c.tMax} :
                /\ ((end.x - start.x) * t.n) % t.d = 0
                /\ ((end.y - start.y) * t.n) % t.d = 0

(***************************************************************************)
(* Plane geometry on points: Point.dist, and the polygon test of           *)
(* util/intersection_tests (an external collaborator).                     *)
(***************************************************************************)
DistSq(a, b) == Sq(a.x - b.x) + Sq(a.y - b.y)

Cross(o, a, b) == (a.x - o.x) * (b.y - o.y) - (a.y - o.y) * (b.x - o.x)
Sign(n) == IF n > 0 THEN 1 ELSE IF n < 0 THEN -1 ELSE 0

\* q lies on the closed segment a b.
OnSegment(a, b, q) ==
    /\ Cross(a, b, q) = 0
    /\ Min(a.x, b.x) <= q.x /\ q.x <= Max(a.x, b.x)
    /\ Min(a.y, b.y) <= q.y /\ q.y <= Max(a.y, b.y)

\* The closed segments a b and c d have a point in common.
SegmentsMeet(a, b, c, d) ==
    \/ /\ Sign(Cross(a, b, c)) # Sign(Cross(a, b, d))
       /\ Sign(Cross(c, d, a)) # Sign(Cross(c, d, b))
    \/ OnSegment(a, b, c) \/ OnSegment(a, b, d)
    \/ OnSegment(c, d, a) \/ OnSegment(c, d, b)

\* p lies in the convex polygon poly (a sequence of corners, in either
\* orientation), its border included.
PolygonContainsPoint(poly, q) ==
    LET n == Len(poly)
        side(i) == Cross(poly[i], poly[(i % n) + 1], q)
    IN  /\ n >= 3
        /\ \/ \A i \in 1..n : side(i) >= 0
           \/ \A i \in 1..n : side(i) <= 0

polygonIntersectsPolygon(a, b) ==
    \/ \E i \in DOMAIN a : PolygonContainsPoint(b, a[i])
    \/ \E i \in DOMAIN b : PolygonContainsPoint(a, b[i])
    \/ \E i \in DOMAIN a, j \in DOMAIN b :
           SegmentsMeet(a[i], a[(i % Len(a)) + 1], b[j], b[(j % Len(b)) + 1])

(***************************************************************************)
(* placeCollisionCircles.  firstAndLastGlyph is what the line layout       *)
(* routine placeFirstAndLastGlyph returned: << >> for null, or <<r>> with  *)
(* r.first.path and r.last.path.  p is the clip-space vector of the        *)
(* anchor.                                                                 *)
(***************************************************************************)
projectAnchor(p) == [perspectiveRatio |-> perspectiveRatioOf(p), cameraDistance |-> p[3]]

Reverse(q) == [i \in 1..Len(q) |-> q[Len(q) + 1 - i]]
Rest(q) == IF Len(q) = 0 THEN << >> ELSE Tail(q)

\* first.path.slice(1).reverse().concat(last.path.slice(1))
projectedPathOf(fl) == Reverse(Rest(fl.first.path)) \o Rest(fl.last.path)

\* Math.ceil(segLen / step) for the vector (dx, dy) of length segLen.
CeilLenOver(dx, dy, step) ==
    CHOOSE k \in 0..((Abs(dx) + Abs(dy)) \div step + 1) :
        /\ Sq(step * k) >= Sq(dx) + Sq(dy)
        /\ k = 0 \/ Sq(step * (k - 1)) < Sq(dx) + Sq(dy)

\* Mutant: the circles are spaced by the diameter doubled.
circlesInSegmentOf_sparse(startPoint, endPoint, radius) ==
    CeilLenOver(endPoint.x - startPoint.x, endPoint.y - startPoint.y, 4 * radius) - 1

circlesInSegmentOf(startPoint, endPoint, radius) ==
    CeilLenOver(endPoint.x - startPoint.x, endPoint.y - startPoint.y, 2 * radius) - 1

\* A circle of the chain.  finite is false when a coordinate is NaN or
\* infinite: Point.div by zero.
Circle(point, radius, finite) == [point |-> point, radius |-> radius, finite |-> finite]

\* The circles the interior loop adds: startPoint.add(circleToCircle.mult(i))
\* for i = 1 .. circlesInSegment, circleToCircle = startToEnd.div(circlesInSegment + 1).
interiorCircles(startPoint, endPoint, radius) ==
    LET circlesInSegment == circlesInSegmentOf(startPoint, endPoint, radius)
        k == circlesInSegment + 1
        circleToCircle == IF k = 0 THEN Pt(0, 0)
                          ELSE Pt((endPoint.x - startPoint.x) \div k, (endPoint.y - startPoint.y) \div k)
    IN  IF circlesInSegment < 1 THEN << >>
        ELSE [i \in 1..circlesInSegment |->
                 Circle(Pt(startPoint.x + circleToCircle.x * i, startPoint.y + circleToCircle.y * i),
                        radius, k # 0)]

\* One pass of the loop over the segments of the path.  st.segments records,
\* for each segment that survived clipping, what the pass added for it.
segmentCircles(st, clippedLine, radius) ==
    IF clippedLine = Null THEN st
    ELSE LET startPoint == clippedLine[1]
             endPoint == clippedLine[2]
             placeStart == \/ st.lastPlacedCircle = Null
                           \/ DistSq(st.lastPlacedCircle[1], startPoint) >= Sq(2 * radius)
         IN  With(interiorCircles(startPoint, endPoint, radius), LAMBDA interior :
                 [circles |-> st.circles
                                \o (IF placeStart THEN <<Circle(startPoint, radius, TRUE)>> ELSE << >>)
                                \o <<Circle(endPoint, radius, TRUE)>>
                                \o interior,
                  lastPlacedCircle |-> <<endPoint>>,
                  segments |-> Append(st.segments,
                                      [start |-> startPoint, end |-> endPoint,
                                       startPlaced |-> placeStart, interior |-> interior])])

chainStep(st, a, b, radius, min, max) ==
    With(clipLine(a, b, min, max), LAMBDA clippedLine : segmentCircles(st, clippedLine, radius))

circleChain(projectedPath, radius, min, max) ==
    Fold(LAMBDA st, segIdx : chainStep(st, projectedPath[segIdx], projectedPath[segIdx + 1],
                                       radius, min, max),
         [circles |-> << >>, lastPlacedCircle |-> Null, segments |-> << >>],
         [segIdx \in 1..Max(Len(projectedPath) - 1, 0) |-> segIdx])

\* One pass of the loop over the circles; st.returned records the early return.
\* Mutant: one circle off screen makes the chain off screen.
scanStep_anyOffscreen(st, g, circle, allowOverlap, showCollisionCircles, pred) ==
    LET px == circle.point.x + viewportPadding
        py == circle.point.y + viewportPadding
        x1 == px - circle.radius
        y1 == py - circle.radius
        x2 == px + circle.radius
        y2 == py + circle.radius
        hit == (~allowOverlap) /\ GridHitTestCircle(g, px, py, circle.radius, pred)
    IN  IF st.returned THEN st
        ELSE [placedCollisionCircles |-> st.placedCollisionCircles \o <<px, py, circle.radius, 0>>,
              entirelyOffscreen |-> st.entirelyOffscreen \/ isOffscreen(x1, y1, x2, y2),
              inGrid |-> st.inGrid \/ isInsideGrid(x1, y1, x2, y2),
              collisionDetected |-> st.collisionDetected \/ (hit /\ showCollisionCircles),
              returned |-> hit /\ ~showCollisionCircles]

scanStep(st, g, circle, allowOverlap, showCollisionCircles, pred) ==
    LET px == circle.point.x + viewportPadding
        py == circle.point.y + viewportPadding
        x1 == px - circle.radius
        y1 == py - circle.radius
        x2 == px + circle.radius
        y2 == py + circle.radius
        hit == (~allowOverlap) /\ GridHitTestCircle(g, px, py, circle.radius, pred)
    IN  IF st.returned THEN st
        ELSE [placedCollisionCircles |-> st.placedCollisionCircles \o <<px, py, circle.radius, 0>>,
              entirelyOffscreen |-> st.entirelyOffscreen /\ isOffscreen(x1, y1, x2, y2),
              inGrid |-> st.inGrid \/ isInsideGrid(x1, y1, x2, y2),
              collisionDetected |-> st.collisionDetected \/ (hit /\ showCollisionCircles),
              returned |-> hit /\ ~showCollisionCircles]

scanCircles(g, circles, allowOverlap, showCollisionCircles, pred) ==
    Fold(LAMBDA st, circle : scanStep(st, g, circle, allowOverlap, showCollisionCircles, pred),
         [placedCollisionCircles |-> << >>, entirelyOffscreen |-> TRUE,
          inGrid |-> FALSE, collisionDetected |-> FALSE, returned |-> FALSE],
         circles)

labelPlaneMin == Pt(0, 0)
labelPlaneMax == Pt(TransformWidth, TransformHeight)

placeCollisionCircles(g, ig, allowOverlap, firstAndLastGlyph, p, showCollisionCircles, pred) ==
    LET radius == 10 * projectAnchor(p).perspectiveRatio
        circlesOf == IF firstAndLastGlyph = Null
                     THEN [circles |-> << >>, lastPlacedCircle |-> Null, segments |-> << >>]
                     ELSE circleChain(projectedPathOf(firstAndLastGlyph[1]), radius,
                                      labelPlaneMin, labelPlaneMax)
    IN  With(circlesOf, LAMBDA chain :
        With(scanCircles(g, chain.circles, allowOverlap, showCollisionCircles, pred), LAMBDA scan :
            IF scan.returned
            THEN [grid |-> g, ignoredGrid |-> ig, circles |-> << >>, offscreen |-> FALSE,
                  generated |-> chain.circles, segments |-> chain.segments]
            ELSE [grid |-> g, ignoredGrid |-> ig,
                  circles |-> IF scan.collisionDetected \/ ~scan.inGrid
                              THEN << >> ELSE scan.placedCollisionCircles,
                  offscreen |-> scan.entirelyOffscreen,
                  generated |-> chain.circles, segments |-> chain.segments]))

(***************************************************************************)
(* insertCollisionCircles.                                                 *)
(***************************************************************************)
\* Mutant: the loop stops one circle early.
insertCircles_stopsEarly(g, key, collisionCircles) ==
    Fold(LAMBDA st, k : GridInsertCircle(st, key, collisionCircles[4 * k - 3],
                                         collisionCircles[4 * k - 2], collisionCircles[4 * k - 1]),
         g,
         [k \in 1..Max((Len(collisionCircles) \div 4) - 1, 0) |-> k])

insertCircles(g, key, collisionCircles) ==
    Fold(LAMBDA st, k : GridInsertCircle(st, key, collisionCircles[4 * k - 3],
                                         collisionCircles[4 * k - 2], collisionCircles[4 * k - 1]),
         g,
         [k \in 1..(Len(collisionCircles) \div 4) |-> k])

\* Mutant: circles whose placement is ignored are entered into both grids.
insertCollisionCircles_bothGrids(g, ig, collisionCircles, ignorePlacement, key) ==
    IF ignorePlacement
    THEN [grid |-> insertCircles(g, key, collisionCircles),
          ignoredGrid |-> insertCircles(ig, key, collisionCircles)]
    ELSE [grid |-> insertCircles(g, key, collisionCircles), ignoredGrid |-> ig]

insertCollisionCircles(g, ig, collisionCircles, ignorePlacement, key) ==
    IF ignorePlacement
    THEN [grid |-> g, ignoredGrid |-> insertCircles(ig, key, collisionCircles)]
    ELSE [grid |-> insertCircles(g, key, collisionCircles), ignoredGrid |-> ig]

(***************************************************************************)
(* queryRenderedSymbols.  The result maps each bucketInstanceId it holds   *)
(* to a sequence of featureIndex values.                                   *)
(***************************************************************************)
EmptyMapping == [b \in {} |-> << >>]

MinOver(q, f(_)) == CHOOSE m \in { f(q[i]) : i \in DOMAIN q } : \A i \in DOMAIN q : m <= f(q[i])
MaxOver(q, f(_)) == CHOOSE m \in { f(q[i]) : i \in DOMAIN q } : \A i \in DOMAIN q : m >= f(q[i])

\* Mutant: a feature is marked as seen before its entry is tested.
queryStep_seenBeforeTest(st, query, feature) ==
    LET featureKey == feature.key
        bbox == <<Pt(feature.x1, feature.y1), Pt(feature.x2, feature.y1),
                  Pt(feature.x2, feature.y2), Pt(feature.x1, feature.y2)>>
        seen == st.seenFeatures \cup {<<featureKey.bucketInstanceId, featureKey.featureIndex>>}
    IN  IF <<featureKey.bucketInstanceId, featureKey.featureIndex>> \in st.seenFeatures THEN st
        ELSE IF ~polygonIntersectsPolygon(query, bbox)
             THEN [seenFeatures |-> seen, result |-> st.result]
        ELSE [seenFeatures |-> seen,
              result |-> [b \in DOMAIN st.result \cup {featureKey.bucketInstanceId} |->
                             IF b = featureKey.bucketInstanceId
                             THEN (IF b \in DOMAIN st.result THEN st.result[b] ELSE << >>)
                                      \o <<featureKey.featureIndex>>
                             ELSE st.result[b]]]

queryStep(st, query, feature) ==
    LET featureKey == feature.key
        bbox == <<Pt(feature.x1, feature.y1), Pt(feature.x2, feature.y1),
                  Pt(feature.x2, feature.y2), Pt(feature.x1, feature.y2)>>
    IN  IF <<featureKey.bucketInstanceId, featureKey.featureIndex>> \in st.seenFeatures THEN st
        ELSE IF ~polygonIntersectsPolygon(query, bbox) THEN st
        ELSE [seenFeatures |-> st.seenFeatures
                                 \cup {<<featureKey.bucketInstanceId, featureKey.featureIndex>>},
              result |-> [b \in DOMAIN st.result \cup {featureKey.bucketInstanceId} |->
                             IF b = featureKey.bucketInstanceId
                             THEN (IF b \in DOMAIN st.result THEN st.result[b] ELSE << >>)
                                      \o <<featureKey.featureIndex>>
                             ELSE st.result[b]]]

queryRenderedSymbols(g, ig, viewportQueryGeometry) ==
    IF Len(viewportQueryGeometry) = 0 \/ (GridKeysLength(g) = 0 /\ GridKeysLength(ig) = 0)
    THEN [grid |-> g, ignoredGrid |-> ig, result |-> EmptyMapping]
    ELSE LET query == [i \in DOMAIN viewportQueryGeometry |->
                          Pt(viewportQueryGeometry[i].x + viewportPadding,
                             viewportQueryGeometry[i].y + viewportPadding)]
             minX == MinOver(query, LAMBDA q : q.x)
             minY == MinOver(query, LAMBDA q : q.y)
             maxX == MaxOver(query, LAMBDA q : q.x)
             maxY == MaxOver(query, LAMBDA q : q.y)
             features == GridQuery(g, minX, minY, maxX, maxY)
                             \o GridQuery(ig, minX, minY, maxX, maxY)
             scan == Fold(LAMBDA st, feature : queryStep(st, query, feature),
                          [seenFeatures |-> {}, result |-> EmptyMapping],
                          features)
         IN  [grid |-> g, ignoredGrid |-> ig, result |-> scan.result]

(***************************************************************************)
(* Inputs.                                                                 *)
(***************************************************************************)
\* The clip-space vector with w = w that projects to the grid point (px, py).
ClipOf(px, py, w) ==
    <<((px - viewportPadding) * 2 * w) \div TransformWidth - w,
      w - ((py - viewportPadding) * 2 * w) \div TransformHeight,
      w>>

\* A candidate: a box of half-size (hx, hy) in tile units around an anchor
\* that projects to (px, py) with clip-space w.  rect is the rectangle the
\* candidate covers in grid space.
Cand(hx, hy, px, py, w, tpr) ==
    LET k == tpr * ((w + CameraToCenterDistance) \div (2 * w))
    IN  [collisionBox |-> [x1 |-> -hx, y1 |-> -hy, x2 |-> hx, y2 |-> hy],
         p |-> ClipOf(px, py, w), textPixelRatio |-> tpr,
         rect |-> <<px - hx * k, py - hy * k, px + hx * k, py + hy * k>>]

Far == CameraToCenterDistance
Near == CameraToCenterDistance \div 3

\* Candidates that overlap one another, in the middle of the viewport and in
\* the padding.
CoreCandidates ==
    { Cand(10, 10, 50, 50, Far, 1),      \* (40,40,60,60)
      Cand(10, 10, 55, 55, Far, 1),      \* (45,45,65,65)
      Cand(10, 10, 510, 310, Far, 1),    \* (500,300,520,320)
      Cand(5, 5, 520, 320, Far, 2),      \* (510,310,530,330)
      Cand(5, 5, 520, 340, Near, 1) }    \* (510,330,530,350)

\* Candidates at the four edges of the padded grid.
GridEdgeCandidates ==
    { Cand(10, 10, -11, 310, Far, 1),    \* x2 = -1: left of the grid
      Cand(10, 10, -10, 310, Far, 1),    \* x2 = 0
      Cand(10, 10, 1009, 310, Far, 1),   \* x1 = 999
      Cand(10, 10, 1010, 310, Far, 1),   \* x1 = 1000: right of the grid
      Cand(10, 10, 510, -11, Far, 1),    \* y2 = -1: above the grid
      Cand(10, 10, 510, -10, Far, 1),    \* y2 = 0
      Cand(10, 10, 510, 809, Far, 1),    \* y1 = 799
      Cand(10, 10, 510, 810, Far, 1) }   \* y1 = 800: below the grid

\* Candidates at the four edges of the unpadded viewport.
ViewportEdgeCandidates ==
    { Cand(10, 10, 89, 310, Far, 1),     \* x2 = 99
      Cand(10, 10, 90, 310, Far, 1),     \* x2 = 100
      Cand(10, 10, 909, 310, Far, 1),    \* x1 = 899
      Cand(10, 10, 910, 310, Far, 1),    \* x1 = 900
      Cand(10, 10, 911, 310, Far, 1),    \* x1 = 901
      Cand(10, 10, 510, 89, Far, 1),     \* y2 = 99
      Cand(10, 10, 510, 90, Far, 1),     \* y2 = 100
      Cand(10, 10, 510, 709, Far, 1),    \* y1 = 699
      Cand(10, 10, 510, 710, Far, 1),    \* y1 = 700
      Cand(10, 10, 510, 711, Far, 1) }   \* y1 = 701

BoxCandidates == CoreCandidates \cup GridEdgeCandidates

Predicates == { NoPredicate, GroupPredicate(1) }

Keys == { Key(1, 0, 0), Key(2, 1, 1) }

\* Boxes handed to insertCollisionBox: boxes that placeCollisionBox returns.
InsertBoxes == { <<40, 40, 60, 60>>, <<500, 300, 520, 320>> }

\* What placeFirstAndLastGlyph returns for a label whose footprint runs
\* through the points of `before`, the anchor (dropped from the path) and
\* the points of `after`, in label plane pixels.
FirstAndLast(before, after) ==
    << [first |-> [path |-> <<Pt(0, 0)>> \o Reverse(before)],
        last |-> [path |-> <<Pt(0, 0)>> \o after]] >>

LinePaths ==
    { FirstAndLast(<<Pt(100, 300)>>, <<Pt(160, 300)>>),
      FirstAndLast(<<Pt(100, 300), Pt(140, 300)>>, <<Pt(140, 330)>>),
      FirstAndLast(<<Pt(-20, 300)>>, <<Pt(40, 300)>>),
      FirstAndLast(<<Pt(500, 300)>>, <<Pt(536, 348)>>),
      FirstAndLast(<<Pt(200, 200), Pt(200, 200)>>, <<Pt(240, 200)>>),
      FirstAndLast(<<Pt(900, 640)>>, <<Pt(700, 610)>>),
      FirstAndLast(<<Pt(900, 640)>>, <<Pt(700, 620)>>),
      FirstAndLast(<<Pt(20, 300), Pt(-10, 300)>>, <<Pt(10, 336)>>),
      FirstAndLast(<<Pt(100, 580), Pt(100, 640)>>, <<Pt(160, 640), Pt(160, 580)>>),
      FirstAndLast(<<Pt(-50, -50)>>, <<Pt(-10, -50)>>),
      FirstAndLast(<<Pt(-300, -50), Pt(-200, 0)>>, <<Pt(48, 124)>>),
      FirstAndLast(<<Pt(-300, -50)>>, <<Pt(-200, 0)>>),
      FirstAndLast(<< >>, << >>),
      Null }

\* Every division the chain construction makes on this path is exact.
ChainExact(fl, p) ==
    fl # Null =>
        LET path == projectedPathOf(fl[1])
            radius == 10 * projectAnchor(p).perspectiveRatio
        IN  \A i \in 1..(Len(path) - 1) :
                /\ ClipExact(path[i], path[i + 1], labelPlaneMin, labelPlaneMax)
                /\ LET cl == clipLine(path[i], path[i + 1], labelPlaneMin, labelPlaneMax)
                   IN  cl # Null =>
                           LET k == circlesInSegmentOf(cl[1], cl[2], radius) + 1
                           IN  k > 0 => /\ (cl[2].x - cl[1].x) % k = 0
                                        /\ (cl[2].y - cl[1].y) % k = 0

\* Paths that are also laid out close to the camera.
NearPaths ==
    { FirstAndLast(<<Pt(100, 300)>>, <<Pt(160, 300)>>),
      FirstAndLast(<<Pt(500, 300)>>, <<Pt(536, 348)>>),
      FirstAndLast(<<Pt(-300, -50), Pt(-200, 0)>>, <<Pt(48, 124)>>) }

CircleInputs ==
    { c \in [fl : LinePaths, p : {ClipOf(500, 400, Far)}]
                \cup [fl : NearPaths, p : {ClipOf(500, 400, Near)}] : ChainExact(c.fl, c.p) }

\* allowOverlap with and without the debug display of collision circles.
CircleFlags ==
    { [allowOverlap |-> FALSE, showCollisionCircles |-> FALSE],
      [allowOverlap |-> FALSE, showCollisionCircles |-> TRUE],
      [allowOverlap |-> TRUE, showCollisionCircles |-> FALSE] }

\* A box on the first line path, and the circles placeCollisionCircles
\* returns for that path with radius 20.
PathBox == <<240, 390, 260, 410>>
PathCircles == <<200, 400, 20, 0, 260, 400, 20, 0, 230, 400, 20, 0>>

\* The inputs of SpecIndex.
IndexCandidates ==
    { Cand(10, 10, 250, 400, Far, 1),    \* (240,390,260,410)
      Cand(10, 10, 255, 405, Far, 1),    \* (245,395,265,415)
      Cand(10, 10, 510, 310, Far, 1) }   \* (500,300,520,320)

IndexCircleInputs ==
    { [fl |-> FirstAndLast(<<Pt(100, 300)>>, <<Pt(160, 300)>>), p |-> ClipOf(500, 400, Far)],
      [fl |-> FirstAndLast(<<Pt(500, 300)>>, <<Pt(536, 348)>>), p |-> ClipOf(500, 400, Far)] }

\* Query polygons, in viewport pixels: none, a click on the path box, a
\* box selection around the first path, a triangle away from everything.
QueryPolygons ==
    { << >>,
      << Pt(150, 300) >>,
      << Pt(90, 280), Pt(170, 280), Pt(170, 320), Pt(90, 320) >>,
      << Pt(700, 100), Pt(720, 100), Pt(710, 120) >> }

(***************************************************************************)
(* The state machine: one action per method of CollisionIndex.             *)
(***************************************************************************)
Idle == [pc |-> "idle"]

Init ==
    /\ grid = EmptyGrid
    /\ ignoredGrid = EmptyGrid
    /\ ret = [op |-> "constructor"]
    /\ log = << >>
    /\ run = Idle

PlaceBox(c, allowOverlap, pred) ==
    \E r \in { placeCollisionBox(grid, ignoredGrid, c.collisionBox, allowOverlap,
                                   c.textPixelRatio, c.p, pred) } :
        /\ grid' = r.grid
        /\ ignoredGrid' = r.ignoredGrid
        /\ ret' = [op |-> "placeCollisionBox", cand |-> c, allowOverlap |-> allowOverlap,
                   pred |-> pred, box |-> r.box, offscreen |-> r.offscreen]
        /\ log' = log

InsertBox(b, ignorePlacement, key) ==
    \E r \in { insertCollisionBox(grid, ignoredGrid, b, ignorePlacement, key) } :
        /\ grid' = r.grid
        /\ ignoredGrid' = r.ignoredGrid
        /\ ret' = [op |-> "insertCollisionBox", box |-> b,
                   ignorePlacement |-> ignorePlacement, key |-> key]
        /\ log' = Append(log, ret')

PlaceCollisionBox ==
    /\ \E c \in BoxCandidates, allowOverlap \in BOOLEAN, pred \in Predicates :
           PlaceBox(c, allowOverlap, pred)
    /\ UNCHANGED run

InsertCollisionBox ==
    /\ Len(log) < MaxEntries
    /\ \E b \in InsertBoxes, ignorePlacement \in BOOLEAN, key \in Keys :
           InsertBox(b, ignorePlacement, key)
    /\ UNCHANGED run

Next ==
    \/ PlaceCollisionBox
    \/ InsertCollisionBox

Spec == Init /\ [][Next]_vars

(***************************************************************************)
(* SpecEdges: box placement at the edges of the grid and of the viewport.  *)
(***************************************************************************)
PlaceEdgeBox ==
    /\ \E c \in BoxCandidates \cup ViewportEdgeCandidates,
          allowOverlap \in BOOLEAN, pred \in Predicates :
           PlaceBox(c, allowOverlap, pred)
    /\ UNCHANGED run

InsertEdgeBox ==
    /\ Len(log) < MaxEdgeEntries
    /\ \E b \in InsertBoxes, ignorePlacement \in BOOLEAN, key \in Keys :
           InsertBox(b, ignorePlacement, key)
    /\ UNCHANGED run

NextEdges ==
    \/ PlaceEdgeBox
    \/ InsertEdgeBox

SpecEdges == Init /\ [][NextEdges]_vars

(***************************************************************************)
(* SpecOrder: the placement pass.  The placement layer takes the           *)
(* candidates in order; it places each one and, when the index accepts it, *)
(* inserts the returned box before it goes on to the next candidate.       *)
(***************************************************************************)
Replay(l) ==
    Fold(LAMBDA st, call : insertCollisionBox(st.grid, st.ignoredGrid, call.box,
                                              call.ignorePlacement, call.key),
         [grid |-> EmptyGrid, ignoredGrid |-> EmptyGrid],
         l)

InsertCall(b, ignorePlacement, key) ==
    [op |-> "insertCollisionBox", box |-> b, ignorePlacement |-> ignorePlacement, key |-> key]

\* What earlier candidates of the frame may have left in the index.
StartLogs ==
    { << >>,
      << InsertCall(<<500, 300, 520, 320>>, FALSE, Key(1, 0, 0)) >>,
      << InsertCall(<<40, 40, 60, 60>>, FALSE, Key(2, 1, 1)) >>,
      << InsertCall(<<40, 40, 60, 60>>, TRUE, Key(1, 0, 0)) >> }

PassItems == [cand : CoreCandidates, key : Keys, pred : Predicates]

InitOrder ==
    /\ log \in StartLogs
    /\ grid = Replay(log).grid
    /\ ignoredGrid = Replay(log).ignoredGrid
    /\ ret = [op |-> "constructor"]
    /\ \E a \in PassItems, b \in PassItems, allowOverlap \in BOOLEAN, ignorePlacement \in BOOLEAN :
           run = [pc |-> "place", queue |-> <<a, b>>, i |-> 1, accepted |-> << >>,
                  allowOverlap |-> allowOverlap, ignorePlacement |-> ignorePlacement,
                  start |-> grid]

PassAdvance(r) == IF r.i = Len(r.queue) THEN [r EXCEPT !.pc = "done"]
                  ELSE [r EXCEPT !.pc = "place", !.i = r.i + 1]

PassPlace ==
    /\ run.pc = "place"
    /\ LET item == run.queue[run.i]
       IN  /\ PlaceBox(item.cand, run.allowOverlap, item.pred)
           /\ run' = IF ret'.box # << >>
                     THEN [run EXCEPT !.pc = "insert", !.accepted = Append(run.accepted, TRUE)]
                     ELSE PassAdvance([run EXCEPT !.accepted = Append(run.accepted, FALSE)])

PassInsert ==
    /\ run.pc = "insert"
    /\ InsertBox(ret.box, run.ignorePlacement, run.queue[run.i].key)
    /\ run' = PassAdvance(run)

NextOrder ==
    \/ PassPlace
    \/ PassInsert

SpecOrder == InitOrder /\ [][NextOrder]_vars

(***************************************************************************)
(* The circle and query calls.                                             *)
(***************************************************************************)
PlaceCircles(c, allowOverlap, showCollisionCircles, pred) ==
    \E r \in { placeCollisionCircles(grid, ignoredGrid, allowOverlap, c.fl, c.p,
                                       showCollisionCircles, pred) } :
        /\ grid' = r.grid
        /\ ignoredGrid' = r.ignoredGrid
        /\ ret' = [op |-> "placeCollisionCircles", fl |-> c.fl, p |-> c.p,
                   allowOverlap |-> allowOverlap,
                   showCollisionCircles |-> showCollisionCircles, pred |-> pred,
                   circles |-> r.circles, offscreen |-> r.offscreen,
                   generated |-> r.generated, segments |-> r.segments]
        /\ log' = log

InsertCircles(collisionCircles, ignorePlacement, key) ==
    \E r \in { insertCollisionCircles(grid, ignoredGrid, collisionCircles, ignorePlacement, key) } :
        /\ grid' = r.grid
        /\ ignoredGrid' = r.ignoredGrid
        /\ ret' = [op |-> "insertCollisionCircles", circles |-> collisionCircles,
                   ignorePlacement |-> ignorePlacement, key |-> key]
        /\ log' = Append(log, ret')

Query(viewportQueryGeometry) ==
    \E r \in { queryRenderedSymbols(grid, ignoredGrid, viewportQueryGeometry) } :
        /\ grid' = r.grid
        /\ ignoredGrid' = r.ignoredGrid
        /\ ret' = [op |-> "queryRenderedSymbols", polygon |-> viewportQueryGeometry,
                   result |-> r.result]
        /\ log' = log

(***************************************************************************)
(* SpecCircles: circle chain placement against a grid that holds at most   *)
(* MaxCircleCalls insertions.                                              *)
(***************************************************************************)
PlaceCollisionCircles ==
    /\ \E c \in CircleInputs, flags \in CircleFlags, pred \in Predicates :
           PlaceCircles(c, flags.allowOverlap, flags.showCollisionCircles, pred)
    /\ UNCHANGED run

InsertPathBox ==
    /\ Len(log) < MaxCircleCalls
    /\ \E ignorePlacement \in BOOLEAN, key \in Keys : InsertBox(PathBox, ignorePlacement, key)
    /\ UNCHANGED run

InsertPathCircles ==
    /\ Len(log) < MaxCircleCalls
    /\ \E ignorePlacement \in BOOLEAN : InsertCircles(PathCircles, ignorePlacement, Key(1, 0, 0))
    /\ UNCHANGED run

NextCircles ==
    \/ PlaceCollisionCircles
    \/ InsertPathBox
    \/ InsertPathCircles

SpecCircles == Init /\ [][NextCircles]_vars

(***************************************************************************)
(* SpecIndex: the five methods together.  run remembers whether the call   *)
(* before the last one was a placeCollisionBox that returned a box.        *)
(***************************************************************************)
JustPlaced ==
    IF ret.op = "placeCollisionBox" /\ ret.box # << >>
    THEN [pc |-> "placed", box |-> ret.box]
    ELSE Idle

IndexPlaceBox ==
    /\ \E c \in IndexCandidates, allowOverlap \in BOOLEAN, pred \in Predicates :
           PlaceBox(c, allowOverlap, pred)
    /\ run' = JustPlaced

IndexPlaceCircles ==
    /\ \E c \in IndexCircleInputs, allowOverlap \in BOOLEAN, pred \in Predicates :
           PlaceCircles(c, allowOverlap, FALSE, pred)
    /\ run' = Idle

IndexQuery ==
    /\ \E q \in QueryPolygons : Query(q)
    /\ run' = Idle

IndexInsertBox ==
    /\ Len(log) < MaxIndexCalls
    /\ \E ignorePlacement \in BOOLEAN, key \in Keys : InsertBox(PathBox, ignorePlacement, key)
    /\ run' = Idle

IndexInsertCircles ==
    /\ Len(log) < MaxIndexCalls
    /\ \E ignorePlacement \in BOOLEAN, key \in Keys :
           InsertCircles(PathCircles, ignorePlacement, key)
    /\ run' = Idle

NextIndex ==
    \/ IndexPlaceBox
    \/ IndexPlaceCircles
    \/ IndexQuery
    \/ IndexInsertBox
    \/ IndexInsertCircles

SpecIndex == Init /\ [][NextIndex]_vars

(***************************************************************************)
(* SpecDebug: placeCollisionCircles called without the debug display and   *)
(* then again, with the same arguments, with it.  run keeps what the first *)
(* of the two calls returned.                                              *)
(***************************************************************************)
DebugInputs ==
    { c \in CircleInputs :
        /\ c.p = ClipOf(500, 400, Far)
        /\ c.fl \in { FirstAndLast(<<Pt(100, 300)>>, <<Pt(160, 300)>>),
                       FirstAndLast(<<Pt(900, 640)>>, <<Pt(700, 620)>>),
                       FirstAndLast(<<Pt(-300, -50), Pt(-200, 0)>>, <<Pt(48, 124)>>),
                       Null } }

\* A box in the padding below the viewport.
PaddingBox == <<790, 710, 810, 730>>

PlaceQuiet ==
    /\ \E c \in DebugInputs, allowOverlap \in BOOLEAN, pred \in Predicates :
           PlaceCircles(c, allowOverlap, FALSE, pred)
    /\ run' = Idle

PlaceDebug ==
    /\ ret.op = "placeCollisionCircles"
    /\ ~ret.showCollisionCircles
    /\ PlaceCircles([fl |-> ret.fl, p |-> ret.p], ret.allowOverlap, TRUE, ret.pred)
    /\ run' = [pc |-> "quiet", circles |-> ret.circles, offscreen |-> ret.offscreen,
               grid |-> grid, ignoredGrid |-> ignoredGrid]

InsertDebugBox ==
    /\ Len(log) < MaxDebugCalls
    /\ \E b \in {PathBox, PaddingBox}, ignorePlacement \in BOOLEAN, key \in Keys :
           InsertBox(b, ignorePlacement, key)
    /\ run' = Idle

NextDebug ==
    \/ PlaceQuiet
    \/ PlaceDebug
    \/ InsertDebugBox

SpecDebug == Init /\ [][NextDebug]_vars

(***************************************************************************)
(* SpecQuery: queries against grids that hold up to MaxQueryEntries        *)
(* insertions of features of two buckets.                                  *)
(***************************************************************************)
QueryKeys == { Key(1, 0, 0), Key(1, 1, 0), Key(2, 0, 1) }

\* A box away from the first line path.
FarBox == <<500, 300, 520, 320>>

\* Polygons in viewport pixels: none, a click that lies in the second and
\* third circle of PathCircles and in PathBox, a click in the first circle
\* only, a selection around the path, a selection around everything, a
\* triangle away from everything, and a triangle whose bounding box meets
\* the first circle of PathCircles while the triangle meets only the other
\* two.
SelectPolygons ==
    { << >>,
      << Pt(115, 270), Pt(190, 270), Pt(190, 330) >>,
      << Pt(150, 300) >>,
      << Pt(85, 300) >>,
      << Pt(90, 280), Pt(170, 280), Pt(170, 320), Pt(90, 320) >>,
      << Pt(50, 150), Pt(450, 150), Pt(450, 350), Pt(50, 350) >>,
      << Pt(700, 100), Pt(720, 100), Pt(710, 120) >> }

QuerySymbols ==
    /\ \E q \in SelectPolygons : Query(q)
    /\ UNCHANGED run

InsertQueryBox ==
    /\ Len(log) < MaxQueryEntries
    /\ \E b \in {PathBox, FarBox}, ignorePlacement \in BOOLEAN,
          key \in {Key(1, 1, 0), Key(2, 0, 1)} :
           InsertBox(b, ignorePlacement, key)
    /\ UNCHANGED run

InsertQueryCircles ==
    /\ Len(log) < MaxQueryEntries
    /\ \E ignorePlacement \in BOOLEAN, key \in QueryKeys :
           InsertCircles(PathCircles, ignorePlacement, key)
    /\ UNCHANGED run

NextQuery ==
    \/ QuerySymbols
    \/ InsertQueryBox
    \/ InsertQueryCircles

SpecQuery == Init /\ [][NextQuery]_vars

(***************************************************************************)
(* SpecInsert: the two insert methods, up to MaxInsertCalls calls.         *)
(***************************************************************************)
\* Flat buffers: none, one circle, and the three circles of PathCircles.
CircleBuffers == { << >>, <<600, 400, 10, 0>>, PathCircles }

InsertAnyBox ==
    /\ Len(log) < MaxInsertCalls
    /\ \E b \in InsertBoxes, ignorePlacement \in BOOLEAN, key \in Keys :
           InsertBox(b, ignorePlacement, key)
    /\ UNCHANGED run

InsertAnyCircles ==
    /\ Len(log) < MaxInsertCalls
    /\ \E c \in CircleBuffers, ignorePlacement \in BOOLEAN, key \in Keys :
           InsertCircles(c, ignorePlacement, key)
    /\ UNCHANGED run

NextInsert ==
    \/ InsertAnyBox
    \/ InsertAnyCircles

SpecInsert == Init /\ [][NextInsert]_vars

(***************************************************************************)
(* SpecClip: clipLine on every segment with end points in and around a     *)
(* rectangle.                                                              *)
(***************************************************************************)
ClipPoints ==
    { Pt(x, y) : x \in (0 - ClipMargin)..(ClipWidth + ClipMargin),
                 y \in (0 - ClipMargin)..(ClipHeight + ClipMargin) }

ClipRects == { [min |-> Pt(0, 0), max |-> Pt(ClipWidth, ClipHeight)],
               [min |-> Pt(1, 1), max |-> Pt(ClipWidth - 1, ClipHeight)] }

InitClip ==
    /\ grid = EmptyGrid
    /\ ignoredGrid = EmptyGrid
    /\ log = << >>
    /\ run = Idle
    /\ \E start \in ClipPoints, end \in ClipPoints, rect \in ClipRects :
           /\ ClipExact(start, end, rect.min, rect.max)
           /\ ret = [op |-> "segment", start |-> start, end |-> end,
                     min |-> rect.min, max |-> rect.max, result |-> Null]

ClipLine ==
    /\ ret.op = "segment"
    /\ ret' = [ret EXCEPT !.op = "clipLine",
                          !.result = clipLine(ret.start, ret.end, ret.min, ret.max)]
    /\ UNCHANGED <<grid, ignoredGrid, log, run>>

NextClip == ClipLine

SpecClip == InitClip /\ [][NextClip]_vars

(***************************************************************************)
(* Vocabulary of the properties.                                           *)
(***************************************************************************)
IsPlaceBox == ret.op = "placeCollisionBox"
Accepted == ret.box # << >>

\* The closed rectangles a and b have a point in common.
Overlap(a, b) == a[1] <= b[3] /\ b[1] <= a[3] /\ a[2] <= b[4] /\ b[2] <= a[4]

\* The rectangle has a point in the padded grid [0, right) x [0, bottom).
InPaddedGrid(b) ==
    /\ b[3] >= 0 /\ b[1] <= gridRightBoundary - 1
    /\ b[4] >= 0 /\ b[2] <= gridBottomBoundary - 1

\* The box inserts of the log that went to the occlusion grid.
BlockingInserts ==
    { i \in DOMAIN log : log[i].op = "insertCollisionBox" /\ ~log[i].ignorePlacement }

(***************************************************************************)
(* C1.  After insertCollisionBox(B, ignorePlacement = false) under group   *)
(* g, a later placeCollisionBox with allowOverlap = false whose rectangle  *)
(* overlaps B returns an empty box when its predicate accepts g, and a     *)
(* non-empty box when its predicate rejects g, the rectangle is inside the *)
(* padded grid and it overlaps no other inserted box the predicate         *)
(* accepts.                                                                *)
(***************************************************************************)
C1_GroupsDecideBlocking ==
    (IsPlaceBox /\ ~ret.allowOverlap) =>
        \A i \in BlockingInserts :
            Overlap(ret.cand.rect, log[i].box) =>
                /\ Accepts(ret.pred, log[i].key) => ~Accepted
                /\ ( /\ ~Accepts(ret.pred, log[i].key)
                     /\ InPaddedGrid(ret.cand.rect)
                     /\ \A j \in BlockingInserts :
                            Accepts(ret.pred, log[j].key) => ~Overlap(ret.cand.rect, log[j].box) )
                   => Accepted

\* A box of group 0 is in the occlusion grid, a box of group 1 that does not
\* overlap the candidate too, and a candidate that overlaps the first is
\* placed with the predicate "group 1".
C1_Witness ==
    /\ IsPlaceBox /\ ~ret.allowOverlap /\ ret.pred = GroupPredicate(1) /\ Accepted
    /\ \E i \in BlockingInserts :
           log[i].key.collisionGroupID = 0 /\ Overlap(ret.cand.rect, log[i].box)
    /\ \E j \in BlockingInserts : log[j].key.collisionGroupID = 1

(***************************************************************************)
(* C4.  placeCollisionBox returns the four projected corners exactly when  *)
(* the projected rectangle is not entirely outside the padded grid and,    *)
(* with allowOverlap false, intersects no occlusion grid entry that the    *)
(* predicate accepts; every rejection is {box: [], offscreen: false}.  In  *)
(* the 1000 x 800 grid holding (40,40,60,60), the candidate (45,45,65,65)  *)
(* of the same group is rejected with allowOverlap false and is returned   *)
(* with allowOverlap true, with the offscreen flag `exampleOffscreen`.     *)
(***************************************************************************)
Blocked(b, pred) ==
    \E i \in DOMAIN grid : Accepts(pred, grid[i].key) /\ EntryIntersectsRect(grid[i], b[1], b[2], b[3], b[4])

ExampleGrid == <<BoxEntry(Key(1, 0, 0), 40, 40, 60, 60)>>
ExampleCandidate == <<45, 45, 65, 65>>

C4_Statement(exampleOffscreen) ==
    IsPlaceBox =>
        /\ Accepted <=> ( /\ InPaddedGrid(ret.cand.rect)
                          /\ ret.allowOverlap \/ ~Blocked(ret.cand.rect, ret.pred) )
        /\ Accepted => ret.box = ret.cand.rect
        /\ ~Accepted => ret.offscreen = FALSE
        /\ (grid = ExampleGrid /\ ret.cand.rect = ExampleCandidate /\ Accepts(ret.pred, Key(1, 0, 0))) =>
               IF ret.allowOverlap
               THEN ret.box = ExampleCandidate /\ ret.offscreen = exampleOffscreen
               ELSE ret.box = << >> /\ ret.offscreen = FALSE

\* C4 as claimed: the example reports offscreen = false.
C4_AsClaimed == C4_Statement(FALSE)

\* C4 amended: the example box lies in the padding, left of and above the
\* unpadded viewport, and reports offscreen = true.
C4_PlaceBoxResult == C4_Statement(TRUE)

C4_Witness ==
    /\ IsPlaceBox /\ grid = ExampleGrid /\ ret.cand.rect = ExampleCandidate
    /\ ret.allowOverlap /\ ret.pred = NoPredicate /\ ret.box = ExampleCandidate

(***************************************************************************)
(* C2.  Placement is greedy and order sensitive: when two candidates of    *)
(* the same collision group overlap one another, lie in the grid, are      *)
(* placed with allowOverlap = false and inserted with ignorePlacement =    *)
(* false, and nothing in the index overlaps either of them, the pass       *)
(* accepts the one it takes first and rejects the other, whichever of the  *)
(* two that is.                                                            *)
(***************************************************************************)
NothingOverlaps(g, b) ==
    \A i \in DOMAIN g : ~EntryIntersectsRect(g[i], b[1], b[2], b[3], b[4])

SameGroup(a, b) ==
    /\ a.key.collisionGroupID = b.key.collisionGroupID
    /\ Accepts(a.pred, b.key) /\ Accepts(b.pred, a.key)

OrderCase ==
    /\ run.pc = "done"
    /\ ~run.allowOverlap /\ ~run.ignorePlacement
    /\ SameGroup(run.queue[1], run.queue[2])
    /\ Overlap(run.queue[1].cand.rect, run.queue[2].cand.rect)
    /\ InPaddedGrid(run.queue[1].cand.rect) /\ InPaddedGrid(run.queue[2].cand.rect)
    /\ NothingOverlaps(run.start, run.queue[1].cand.rect)
    /\ NothingOverlaps(run.start, run.queue[2].cand.rect)

C2_FirstWins == OrderCase => run.accepted = <<TRUE, FALSE>>

\* The pass took (45,45,65,65) before (40,40,60,60): the second is rejected;
\* the start grid is not empty.
C2_Witness ==
    /\ OrderCase /\ run.accepted = <<TRUE, FALSE>>
    /\ run.queue[1].cand.rect = <<45, 45, 65, 65>>
    /\ run.queue[2].cand.rect = <<40, 40, 60, 60>>
    /\ run.start # EmptyGrid

(***************************************************************************)
(* C6.  For every accepted placeCollisionBox result, offscreen is true     *)
(* exactly when the rectangle lies wholly outside the unpadded viewport,   *)
(* (padding, padding) to (padding + width, padding + height), with one     *)
(* boundary rule for the right and the bottom edge and one for the left    *)
(* and the top edge; a box whose left edge is at screenRightBoundary - 1   *)
(* is not offscreen.                                                       *)
(***************************************************************************)
Before(a, edge) == a < edge
Beyond(a, edge) == a >= edge

WhollyOutsideViewport(b) ==
    \/ Before(b[3], viewportPadding)
    \/ Beyond(b[1], viewportPadding + TransformWidth)
    \/ Before(b[4], viewportPadding)
    \/ Beyond(b[2], viewportPadding + TransformHeight)

C6_OffscreenUniform ==
    (IsPlaceBox /\ Accepted) =>
        /\ ret.offscreen <=> WhollyOutsideViewport(ret.box)
        /\ ret.box[1] = screenRightBoundary - 1 => ~ret.offscreen

(***************************************************************************)
(* C7.  clipLine returns [start, end] unchanged when both end points lie   *)
(* inside the rectangle, and null whenever both end points lie left of     *)
(* min.x, or both right of max.x, or both above min.y, or both below       *)
(* max.y, whatever their other coordinates.                                *)
(***************************************************************************)
IsClipLine == ret.op = "clipLine"

InRect(q, min, max) == min.x <= q.x /\ q.x <= max.x /\ min.y <= q.y /\ q.y <= max.y

SharedExcludedRegion(a, b, min, max) ==
    \/ a.x < min.x /\ b.x < min.x
    \/ a.x > max.x /\ b.x > max.x
    \/ a.y < min.y /\ b.y < min.y
    \/ a.y > max.y /\ b.y > max.y

C7_TrivialCases ==
    IsClipLine =>
        /\ (InRect(ret.start, ret.min, ret.max) /\ InRect(ret.end, ret.min, ret.max))
               => ret.result = <<ret.start, ret.end>>
        /\ SharedExcludedRegion(ret.start, ret.end, ret.min, ret.max) => ret.result = Null

(***************************************************************************)
(* C8.  clipLine returns null if and only if the segment has no point in   *)
(* the rectangle; when it returns [p, q], both lie in the rectangle and on *)
(* the segment, and p is no further from start than q.                     *)
(***************************************************************************)
\* The segment a b has a point in the rectangle: an end point lies in it,
\* or the segment crosses one of its four sides.
SegmentMeetsRect(a, b, min, max) ==
    \/ InRect(a, min, max) \/ InRect(b, min, max)
    \/ SegmentsMeet(a, b, Pt(min.x, min.y), Pt(max.x, min.y))
    \/ SegmentsMeet(a, b, Pt(max.x, min.y), Pt(max.x, max.y))
    \/ SegmentsMeet(a, b, Pt(max.x, max.y), Pt(min.x, max.y))
    \/ SegmentsMeet(a, b, Pt(min.x, max.y), Pt(min.x, min.y))

C8_ClipIsIntersection ==
    IsClipLine =>
        /\ ret.result = Null <=> ~SegmentMeetsRect(ret.start, ret.end, ret.min, ret.max)
        /\ ret.result # Null =>
               /\ InRect(ret.result[1], ret.min, ret.max)
               /\ InRect(ret.result[2], ret.min, ret.max)
               /\ OnSegment(ret.start, ret.end, ret.result[1])
               /\ OnSegment(ret.start, ret.end, ret.result[2])
               /\ DistSq(ret.start, ret.result[1]) <= DistSq(ret.start, ret.result[2])

\* For the record: a null result is never wrong, and the points returned
\* are on the segment and in order.
ClipNullIsSound ==
    IsClipLine =>
        /\ ret.result = Null => ~SegmentMeetsRect(ret.start, ret.end, ret.min, ret.max)
        /\ ret.result # Null =>
               /\ OnSegment(ret.start, ret.end, ret.result[1])
               /\ OnSegment(ret.start, ret.end, ret.result[2])
               /\ DistSq(ret.start, ret.result[1]) <= DistSq(ret.start, ret.result[2])

(***************************************************************************)
(* Vocabulary of the properties about circles, the ignored grid and        *)
(* queries.  The insertions the index has seen are read from log.          *)
(***************************************************************************)
IsPlaceCircles == ret.op = "placeCollisionCircles"
IsQuery == ret.op = "queryRenderedSymbols"

\* The circles (x, y, radius) of a flat buffer.
CirclesOf(buffer) ==
    [k \in 1..(Len(buffer) \div 4) |->
        [x |-> buffer[4 * k - 3], y |-> buffer[4 * k - 2], r |-> buffer[4 * k - 1]]]

\* The logged insertion e covers a point of the closed rectangle b.
InsertMeetsRect(e, b) ==
    IF e.op = "insertCollisionBox" THEN Overlap(e.box, b)
    ELSE \E k \in DOMAIN CirclesOf(e.circles) :
             LET c == CirclesOf(e.circles)[k]
             IN  CircleIntersectsRect(c.x, c.y, c.r, b[1], b[2], b[3], b[4])

\* The logged insertion e covers a point of the disc around (x, y).
InsertMeetsCircle(e, x, y, r) ==
    IF e.op = "insertCollisionBox"
    THEN CircleIntersectsRect(x, y, r, e.box[1], e.box[2], e.box[3], e.box[4])
    ELSE \E k \in DOMAIN CirclesOf(e.circles) :
             LET c == CirclesOf(e.circles)[k]
             IN  CirclesIntersect(x, y, r, c.x, c.y, c.r)

\* The insertions that can block a placement with predicate pred.
Blockers(pred) ==
    { i \in DOMAIN log : (~log[i].ignorePlacement) /\ Accepts(pred, log[i].key) }

IgnoredInserts == { i \in DOMAIN log : log[i].ignorePlacement }

\* The generated circle c in grid space: centre and bounding box.
GridX(c) == c.point.x + viewportPadding
GridY(c) == c.point.y + viewportPadding
BBox(c) == <<GridX(c) - c.radius, GridY(c) - c.radius, GridX(c) + c.radius, GridY(c) + c.radius>>

\* A blocker covers a point of one of the generated circles.
ChainBlocked ==
    \E k \in DOMAIN ret.generated, i \in Blockers(ret.pred) :
        InsertMeetsCircle(log[i], GridX(ret.generated[k]), GridY(ret.generated[k]),
                          ret.generated[k].radius)

ChainInGrid == \E k \in DOMAIN ret.generated : InPaddedGrid(BBox(ret.generated[k]))

(***************************************************************************)
(* C3.  placeCollisionBox, placeCollisionCircles and queryRenderedSymbols  *)
(* leave both grids as they were; only the two insert methods change them. *)
(* So the same place or query call made again on the same grids returns    *)
(* the same result, and of two overlapping candidates placed one after the *)
(* other, with no insertion between them, the second is accepted exactly   *)
(* as if the first had not been placed.                                    *)
(***************************************************************************)
\* What the grids hold is what the insertions put there, in their order.
GridOf(ignored) ==
    Fold(LAMBDA g, e :
             IF e.ignorePlacement # ignored THEN g
             ELSE IF e.op = "insertCollisionBox"
                  THEN g \o <<BoxEntry(e.key, e.box[1], e.box[2], e.box[3], e.box[4])>>
                  ELSE g \o [k \in DOMAIN CirclesOf(e.circles) |->
                                 CircleEntry(e.key, CirclesOf(e.circles)[k].x,
                                             CirclesOf(e.circles)[k].y,
                                             CirclesOf(e.circles)[k].r)],
         << >>, log)

OnlyInsertsWrite == grid = GridOf(FALSE) /\ ignoredGrid = GridOf(TRUE)

\* The call recorded in ret, made again now, returns what it returned.
Repeatable ==
    /\ IsPlaceBox =>
           LET again == placeCollisionBox(grid, ignoredGrid, ret.cand.collisionBox,
                                          ret.allowOverlap, ret.cand.textPixelRatio,
                                          ret.cand.p, ret.pred)
           IN  again.box = ret.box /\ again.offscreen = ret.offscreen
    /\ IsPlaceCircles =>
           LET again == placeCollisionCircles(grid, ignoredGrid, ret.allowOverlap, ret.fl,
                                              ret.p, ret.showCollisionCircles, ret.pred)
           IN  again.circles = ret.circles /\ again.offscreen = ret.offscreen
    /\ IsQuery =>
           queryRenderedSymbols(grid, ignoredGrid, ret.polygon).result = ret.result

\* The candidate is in the padded grid and overlaps no blocker.
Placeable(b, allowOverlap, pred) ==
    /\ InPaddedGrid(b)
    /\ allowOverlap \/ \A i \in Blockers(pred) : ~InsertMeetsRect(log[i], b)

\* The call before this one placed a box that overlaps this candidate.
SecondOfPair ==
    /\ IsPlaceBox /\ run.pc = "placed"
    /\ run.box # ret.cand.rect
    /\ Overlap(run.box, ret.cand.rect)

C3_PlaceAndQueryReadOnly ==
    /\ OnlyInsertsWrite
    /\ Repeatable
    /\ (SecondOfPair /\ Placeable(ret.cand.rect, ret.allowOverlap, ret.pred)) => Accepted

\* Two overlapping candidates are accepted one after the other on an index
\* that holds an insertion, with overlap not allowed.
C3_Witness ==
    /\ SecondOfPair /\ Accepted /\ ~ret.allowOverlap
    /\ log # << >>

(***************************************************************************)
(* C5.  A box or circle chain inserted with ignorePlacement = true goes    *)
(* to the ignored grid only: no later placeCollisionBox or                 *)
(* placeCollisionCircles is rejected because of it, whatever the predicate *)
(* and allowOverlap, and queryRenderedSymbols over a polygon that          *)
(* intersects it returns its featureIndex under its bucketInstanceId.      *)
(***************************************************************************)
\* The query polygon of ret, in grid space.
QueryPolygon ==
    [i \in DOMAIN ret.polygon |->
        Pt(ret.polygon[i].x + viewportPadding, ret.polygon[i].y + viewportPadding)]

RectPolygon(b) == <<Pt(b[1], b[2]), Pt(b[3], b[2]), Pt(b[3], b[4]), Pt(b[1], b[4])>>

\* The query polygon intersects what the insertion e entered: the box, or
\* the bounding box of one of the circles.
QueryMeets(e) ==
    IF e.op = "insertCollisionBox"
    THEN polygonIntersectsPolygon(QueryPolygon, RectPolygon(e.box))
    ELSE \E k \in DOMAIN CirclesOf(e.circles) :
             LET c == CirclesOf(e.circles)[k]
             IN  polygonIntersectsPolygon(QueryPolygon,
                                          RectPolygon(<<c.x - c.r, c.y - c.r, c.x + c.r, c.y + c.r>>))

Returned(key) ==
    /\ key.bucketInstanceId \in DOMAIN ret.result
    /\ \E n \in DOMAIN ret.result[key.bucketInstanceId] :
           ret.result[key.bucketInstanceId][n] = key.featureIndex

C5_IgnoredNeverBlocks ==
    /\ IsPlaceBox => (Accepted <=> Placeable(ret.cand.rect, ret.allowOverlap, ret.pred))
    /\ IsPlaceCircles =>
           (ret.circles # << >> <=> (ChainInGrid /\ (ret.allowOverlap \/ ~ChainBlocked)))
    /\ IsQuery =>
           \A i \in IgnoredInserts : QueryMeets(log[i]) => Returned(log[i].key)

\* A box is accepted, overlap not allowed, on top of an ignored insertion
\* that its predicate accepts.
C5_Witness ==
    /\ IsPlaceBox /\ Accepted /\ ~ret.allowOverlap
    /\ \E i \in IgnoredInserts :
           Accepts(ret.pred, log[i].key) /\ InsertMeetsRect(log[i], ret.cand.rect)

(***************************************************************************)
(* C9.  For every clipped segment of length L that survives,               *)
(* placeCollisionCircles adds max(0, ceil(L / (2 * radius)) - 1) circles   *)
(* between its start and its end, evenly spaced, so that consecutive       *)
(* centres along the segment (start, interior circles in order, end) are   *)
(* at most 2 * radius apart; a segment of length zero adds no interior     *)
(* circle, and no coordinate is NaN or infinite.                           *)
(***************************************************************************)
\* The centres along one surviving segment.
CentresOf(sg) ==
    <<sg.start>> \o [k \in DOMAIN sg.interior |-> sg.interior[k].point] \o <<sg.end>>

SegmentSpaced(sg, radius) ==
    LET n == Len(sg.interior)
        len2 == DistSq(sg.start, sg.end)
        centres == CentresOf(sg)
    IN  /\ IF len2 = 0 THEN n = 0
           ELSE Sq(2 * radius * n) < len2 /\ len2 <= Sq(2 * radius * (n + 1))
        /\ \A k \in 1..(n + 1) :
               /\ (n + 1) * (centres[k + 1].x - centres[k].x) = sg.end.x - sg.start.x
               /\ (n + 1) * (centres[k + 1].y - centres[k].y) = sg.end.y - sg.start.y
               /\ DistSq(centres[k], centres[k + 1]) <= Sq(2 * radius)
        /\ \A k \in DOMAIN sg.interior :
               /\ sg.interior[k].finite
               /\ sg.interior[k].radius = radius
               /\ \E m \in DOMAIN ret.generated : ret.generated[m] = sg.interior[k]

C9_CircleSpacing ==
    IsPlaceCircles =>
        /\ \A i \in DOMAIN ret.segments :
               SegmentSpaced(ret.segments[i], ret.generated[1].radius)
        /\ \A m \in DOMAIN ret.generated : ret.generated[m].finite

\* One chain with a segment of length zero and a segment that received an
\* interior circle.
C9_Witness ==
    /\ IsPlaceCircles
    /\ \E i \in DOMAIN ret.segments : ret.segments[i].start = ret.segments[i].end
    /\ \E i \in DOMAIN ret.segments : Len(ret.segments[i].interior) >= 1

(***************************************************************************)
(* C10.  placeCollisionCircles returns an empty circles array when, with   *)
(* allowOverlap = false, a circle of the chain intersects an entry of the  *)
(* occlusion grid that the predicate accepts, or when no circle's bounding *)
(* box is inside the padded grid, or when the line layout gave no path.    *)
(* Otherwise it returns one 4-tuple (x + padding, y + padding, radius, 0)  *)
(* per generated circle, those outside the grid included, and offscreen    *)
(* is true when every circle is wholly outside the unpadded viewport and   *)
(* false when one circle reaches into it.                                  *)
(***************************************************************************)
\* One circle per start point placed, end point and interior circle.
GeneratedCount ==
    LET count[i \in 0..Len(ret.segments)] ==
            IF i = 0 THEN 0
            ELSE count[i - 1] + (IF ret.segments[i].startPlaced THEN 1 ELSE 0) + 1
                     + Len(ret.segments[i].interior)
    IN  count[Len(ret.segments)]

FlatBuffer ==
    /\ Len(ret.circles) = 4 * Len(ret.generated)
    /\ Len(ret.generated) = GeneratedCount
    /\ \A k \in DOMAIN ret.generated :
           /\ ret.circles[4 * k - 3] = ret.generated[k].point.x + viewportPadding
           /\ ret.circles[4 * k - 2] = ret.generated[k].point.y + viewportPadding
           /\ ret.circles[4 * k - 1] = ret.generated[k].radius
           /\ ret.circles[4 * k] = 0

\* No point of the closed rectangle b is in the closed viewport.
ClearOfViewport(b) ==
    \/ b[3] < viewportPadding \/ b[1] > viewportPadding + TransformWidth
    \/ b[4] < viewportPadding \/ b[2] > viewportPadding + TransformHeight

\* The rectangle b has a point inside the viewport, its border excluded.
ReachesIntoViewport(b) ==
    /\ b[3] > viewportPadding /\ b[1] < viewportPadding + TransformWidth
    /\ b[4] > viewportPadding /\ b[2] < viewportPadding + TransformHeight

C10_CirclesResult ==
    IsPlaceCircles =>
        IF \/ (~ret.allowOverlap) /\ ChainBlocked
           \/ ~ChainInGrid
           \/ ret.fl = Null
        THEN ret.circles = << >>
        ELSE /\ FlatBuffer
             /\ (\A k \in DOMAIN ret.generated : ClearOfViewport(BBox(ret.generated[k])))
                    => ret.offscreen
             /\ (\E k \in DOMAIN ret.generated : ReachesIntoViewport(BBox(ret.generated[k])))
                    => ~ret.offscreen

\* A chain is returned in full although one of its circles is outside the
\* padded grid and the occlusion grid holds an entry.
C10_Witness ==
    /\ IsPlaceCircles /\ ret.circles # << >> /\ ~ret.allowOverlap
    /\ grid # EmptyGrid
    /\ \E k \in DOMAIN ret.generated : ~InPaddedGrid(BBox(ret.generated[k]))
    /\ \E k \in DOMAIN ret.generated : ReachesIntoViewport(BBox(ret.generated[k]))

(***************************************************************************)
(* C11.  showCollisionCircles suppresses the early exit only: with the     *)
(* same arguments on the same grids, placeCollisionCircles returns the     *)
(* same circles array and the same offscreen flag with the flag set as     *)
(* without it, and leaves both grids as they were.                         *)
(***************************************************************************)
C11_DebugFlagSameResult ==
    (IsPlaceCircles /\ run.pc = "quiet") =>
        /\ ret.circles = run.circles
        /\ ret.offscreen = run.offscreen
        /\ grid = run.grid /\ ignoredGrid = run.ignoredGrid

\* For the record: the circles array and the grids do agree; only the
\* offscreen flag of a rejected chain can differ.
DebugFlagSameCircles ==
    (IsPlaceCircles /\ run.pc = "quiet") =>
        /\ ret.circles = run.circles
        /\ ret.circles # << >> => ret.offscreen = run.offscreen
        /\ grid = run.grid /\ ignoredGrid = run.ignoredGrid

(***************************************************************************)
(* C12.  After any insertions, queryRenderedSymbols(polygon) returns, for  *)
(* each bucketInstanceId, the featureIndex values of exactly the inserted  *)
(* entries (of either grid, a circle taken as its bounding box) whose      *)
(* rectangle intersects the polygon shifted by the padding: each           *)
(* featureIndex once per bucket, in first-seen order with the entries of   *)
(* the occlusion grid before those of the ignored grid; a feature whose    *)
(* first entry misses the polygon is returned when a later entry           *)
(* intersects it; the result is the empty mapping when the polygon is      *)
(* empty or both grids are.                                                *)
(***************************************************************************)
\* The entries in the order the query examines them.
ExaminedEntries == GridOf(FALSE) \o GridOf(TRUE)

EntryHit(e) == polygonIntersectsPolygon(QueryPolygon, RectPolygon(<<e.x1, e.y1, e.x2, e.y2>>))

\* The featureIndex values of the entries of bucket b that the polygon
\* intersects, in the order examined.
HitsOf(b) ==
    LET hits == SelectSeq(ExaminedEntries,
                          LAMBDA e : e.key.bucketInstanceId = b /\ EntryHit(e))
    IN  [n \in DOMAIN hits |-> hits[n].key.featureIndex]

\* q without the repetitions of its elements.
FirstSeen(q) ==
    LET D[n \in 0..Len(q)] ==
            IF n = 0 THEN << >>
            ELSE IF \E j \in 1..(n - 1) : q[j] = q[n] THEN D[n - 1]
                 ELSE Append(D[n - 1], q[n])
    IN  D[Len(q)]

HitBuckets ==
    { ExaminedEntries[n].key.bucketInstanceId :
        n \in { k \in DOMAIN ExaminedEntries : EntryHit(ExaminedEntries[k]) } }

C12_QueryResult ==
    IsQuery =>
        IF ret.polygon = << >> \/ ExaminedEntries = << >>
        THEN ret.result = EmptyMapping
        ELSE /\ DOMAIN ret.result = HitBuckets
             /\ \A b \in HitBuckets : ret.result[b] = FirstSeen(HitsOf(b))

\* A feature with entries in both grids whose first entry misses the
\* polygon is returned once, after another feature of its bucket.
C12_Witness ==
    /\ IsQuery /\ Len(ret.polygon) = 3
    /\ \E b \in DOMAIN ret.result :
           /\ Len(ret.result[b]) = 2
           /\ Len(HitsOf(b)) > 2
    /\ \E k \in DOMAIN ExaminedEntries :
           /\ ~EntryHit(ExaminedEntries[k])
           /\ \A j \in 1..(k - 1) : ExaminedEntries[j].key # ExaminedEntries[k].key
           /\ \E j \in DOMAIN ExaminedEntries :
                  j > k /\ ExaminedEntries[j].key = ExaminedEntries[k].key
                        /\ EntryHit(ExaminedEntries[j])
    /\ grid # EmptyGrid /\ ignoredGrid # EmptyGrid

(***************************************************************************)
(* C13.  insertCollisionCircles on a flat buffer of length 4n adds exactly *)
(* n entries, one per 4-tuple with geometry (cx, cy, radius) and all under *)
(* the one key, to the grid that ignorePlacement selects, and leaves the   *)
(* other grid unchanged; insertCollisionBox adds exactly one entry to the  *)
(* selected grid and leaves the other unchanged; an empty circle buffer    *)
(* changes neither grid.                                                   *)
(***************************************************************************)
\* The step is a call of an insert method: the call is appended to log.
InsertStep == Len(log') = Len(log) + 1 /\ ret' = log'[Len(log')]

\* What the step did to the selected grid (was, now) for the call c.
InsertAdds(c, was, now) ==
    IF c.op = "insertCollisionBox"
    THEN /\ Len(now) = Len(was) + 1
         /\ \A n \in DOMAIN was : now[n] = was[n]
         /\ LET e == now[Len(now)]
            IN  /\ ~e.circle /\ e.key = c.key
                /\ <<e.x1, e.y1, e.x2, e.y2>> = c.box
    ELSE /\ Len(now) = Len(was) + Len(c.circles) \div 4
         /\ \A n \in DOMAIN was : now[n] = was[n]
         /\ \A k \in 1..(Len(c.circles) \div 4) :
                LET e == now[Len(was) + k]
                IN  /\ e.circle /\ e.key = c.key
                    /\ e.cx = c.circles[4 * k - 3]
                    /\ e.cy = c.circles[4 * k - 2]
                    /\ e.r = c.circles[4 * k - 1]

InsertEffect ==
    InsertStep =>
        IF ret'.ignorePlacement
        THEN grid' = grid /\ InsertAdds(ret', ignoredGrid, ignoredGrid')
        ELSE ignoredGrid' = ignoredGrid /\ InsertAdds(ret', grid, grid')

C13_InsertAddsEntries == [][InsertEffect]_vars

\* Three circles were entered into the ignored grid after an empty buffer
\* had been inserted: the occlusion grid is still empty.
C13_Witness ==
    /\ ret.op = "insertCollisionCircles" /\ ret.ignorePlacement
    /\ Len(ret.circles) = 12
    /\ Len(log) = 2 /\ log[1].op = "insertCollisionCircles" /\ log[1].circles = << >>
    /\ Len(ignoredGrid) = 3 /\ grid = EmptyGrid

(***************************************************************************)
(* C14.  The chain of placeCollisionCircles covers the visible path        *)
(* continuously across segment boundaries: in path order over consecutive  *)
(* surviving clipped segments, also where a segment's start circle was     *)
(* omitted because the end circle placed before it is within 2 * radius of *)
(* its start, one circle centre and the next are at most 2 * radius apart. *)
(***************************************************************************)
\* The centres of a segment in path order: its start when a circle was
\* placed there, its interior circles, its end.
PlacedCentres(sg) ==
    (IF sg.startPlaced THEN <<sg.start>> ELSE << >>)
        \o [k \in DOMAIN sg.interior |-> sg.interior[k].point] \o <<sg.end>>

Within(a, b, radius) == DistSq(a, b) <= Sq(2 * radius)

C14_ChainContinuous ==
    IsPlaceCircles =>
        \A i \in DOMAIN ret.segments :
            LET radius == ret.generated[1].radius
                centres == PlacedCentres(ret.segments[i])
            IN  /\ \A k \in 1..(Len(centres) - 1) : Within(centres[k], centres[k + 1], radius)
                /\ (i > 1 /\ ~ret.segments[i].startPlaced)
                       => Within(ret.segments[i - 1].end, centres[1], radius)

(***************************************************************************)
(* The circle pass of drawCollisionDebugGeometry (render/                  *)
(* draw_collision_debug.js): the circles that placement left with every    *)
(* tile are copied, four vertices a circle, into one vertex buffer of      *)
(* maxVerticesPerBatch vertices and drawn whenever that buffer is full and *)
(* once more for what is left at the end of the tile.                      *)
(*                                                                         *)
(* In this specification run is the position of the function (its loop     *)
(* variables), ret.batchVertices is the vertex array it fills, and log is   *)
(* the draw calls it has issued, each with the uniforms (the tile), the     *)
(* data uploaded to the vertex buffer and the segment it draws.            *)
(***************************************************************************)
\* The program's batch holds 4096 circles (16384 vertices).  The loop uses
\* the number only through maxVerticesPerBatch, and the model takes a batch
\* of two circles, so that a full batch, a remainder and several batches of
\* one tile all occur within a few circles.
maxCirclesPerBatch == 2

maxVerticesPerBatch == maxCirclesPerBatch * 4

MaxTiles == 2

\* The conversion of a store into an Int16Array.
ToInt16(v) == ((v + 32768) % 65536) - 32768

\* The four numbers appendVertex stores at one index of batchVertices.
appendVertex(x, y, z, w) == <<ToInt16(x), ToInt16(y), ToInt16(z), ToInt16(w)>>

\* layer.indexBuffer2: the six indices of quad i, two triangles.
quadIndices(i) == <<i * 4 + 0, i * 4 + 1, i * 4 + 2, i * 4 + 2, i * 4 + 3, i * 4 + 0>>

\* bucket.collisionCircleArrayTemp of tile i, element vIdx: four numbers a
\* circle (x, y, radius, collision flag).  Circle k of tile i lies at a
\* position of its own, and radii alternate between the two ratios.
collisionCircleArrayTemp(i, vIdx) ==
    LET k == vIdx \div 4
    IN  CASE vIdx % 4 = 0 -> k % TransformWidth
          [] vIdx % 4 = 1 -> (100 * i + (k \div TransformWidth)) % TransformHeight
          [] vIdx % 4 = 2 -> 10 * (1 + (k % 2))
          [] OTHER        -> 0

NoBucket == [bucket |-> FALSE, circles |-> 0]

Bucket(n) == [bucket |-> TRUE, circles |-> n]

\* arr.length
ArrLength(tile) == 4 * tile.circles

DrawTiles ==
    {NoBucket}
        \cup { Bucket(n) : n \in 0..(2 * maxCirclesPerBatch + 1) }

DrawCoords == UNION { [1..n -> DrawTiles] : n \in 0..MaxTiles }

batchSizeOf_ignoresSpace(verticesLeft, vertexSpaceLeftInBatch) == verticesLeft

batchSizeOf(verticesLeft, vertexSpaceLeftInBatch) ==
    Min(verticesLeft, vertexSpaceLeftInBatch)

\* The loop over vIdx: one quad for every four numbers of arr from
\* vertexOffset on, written at batchVertexIdx and the three indices after
\* it.  A store past the end of the typed array is dropped.
fillBatch(batchVertices, batchVertexIdx, i, vertexOffset, batchSize) ==
    LET quads == (batchSize + 3) \div 4
    IN  [idx \in DOMAIN batchVertices |->
            IF idx >= batchVertexIdx /\ idx < batchVertexIdx + 4 * quads
            THEN LET corner == (idx - batchVertexIdx) % 4
                     vIdx == vertexOffset + 4 * ((idx - batchVertexIdx) \div 4)
                     r == collisionCircleArrayTemp(i, vIdx + 2)
                 IN  appendVertex(collisionCircleArrayTemp(i, vIdx + 0),
                                  collisionCircleArrayTemp(i, vIdx + 1),
                                  IF corner \in {0, 1} THEN -r ELSE r,
                                  IF corner \in {0, 3} THEN -r ELSE r)
            ELSE batchVertices[idx]]

\* layer.vertexBuffer2.updateData(batchVertices, 0) and program2.draw with
\* SegmentVector.simpleSegment(0, 0, batchVertexIdx, batchVertexIdx / 2).
DrawCall(uniforms, batchVertices, batchVertexIdx) ==
    [uniforms |-> uniforms, data |-> batchVertices,
     vertexLength |-> batchVertexIdx, primitiveLength |-> batchVertexIdx \div 2]

DrawCollisionDebugGeometry ==
    \E coords \in DrawCoords :
        /\ run = Idle
        /\ run' = [pc |-> "tile", coords |-> coords, i |-> 1,
                   vertexOffset |-> 0, batchVertexIdx |-> 0]
        /\ ret' = [op |-> "drawCollisionDebugGeometry",
                   batchVertices |-> [idx \in 0..(maxVerticesPerBatch - 1) |-> <<0, 0, 0, 0>>]]
        /\ log' = << >>
        /\ UNCHANGED <<grid, ignoredGrid>>

\* A tile without a bucket or without circles: continue.
SkipTile ==
    /\ run.pc = "tile" /\ run.i <= Len(run.coords)
    /\ ~run.coords[run.i].bucket \/ ArrLength(run.coords[run.i]) = 0
    /\ run' = [run EXCEPT !.i = @ + 1]
    /\ UNCHANGED <<grid, ignoredGrid, ret, log>>

BeginTile ==
    /\ run.pc = "tile" /\ run.i <= Len(run.coords)
    /\ run.coords[run.i].bucket /\ ArrLength(run.coords[run.i]) # 0
    /\ run' = [run EXCEPT !.pc = "batch", !.vertexOffset = 0, !.batchVertexIdx = 0]
    /\ UNCHANGED <<grid, ignoredGrid, ret, log>>

\* One turn of the while loop.
Batch ==
    /\ run.pc = "batch" /\ run.vertexOffset < ArrLength(run.coords[run.i])
    /\ LET verticesLeft == ArrLength(run.coords[run.i]) - run.vertexOffset
           vertexSpaceLeftInBatch == maxVerticesPerBatch - run.batchVertexIdx
           batchSize == batchSizeOf(verticesLeft, vertexSpaceLeftInBatch)
           batchVertexIdx == run.batchVertexIdx + 4 * ((batchSize + 3) \div 4)
       IN  \E batchVertices \in { fillBatch(ret.batchVertices, run.batchVertexIdx, run.i,
                                            run.vertexOffset, batchSize) } :
               /\ ret' = [ret EXCEPT !.batchVertices = batchVertices]
               /\ IF batchVertexIdx = maxVerticesPerBatch
                  THEN /\ log' = Append(log, DrawCall(run.i, batchVertices, batchVertexIdx))
                       /\ run' = [run EXCEPT !.vertexOffset = @ + batchSize,
                                             !.batchVertexIdx = 0]
                  ELSE /\ log' = log
                       /\ run' = [run EXCEPT !.vertexOffset = @ + batchSize,
                                             !.batchVertexIdx = batchVertexIdx]
    /\ UNCHANGED <<grid, ignoredGrid>>

\* The loop is left; what the batch still holds is drawn.
Leftover ==
    /\ run.pc = "batch" /\ ~(run.vertexOffset < ArrLength(run.coords[run.i]))
    /\ IF run.batchVertexIdx # 0
       THEN /\ log' = Append(log, DrawCall(run.i, ret.batchVertices, run.batchVertexIdx))
            /\ run' = [run EXCEPT !.pc = "tile", !.i = @ + 1, !.batchVertexIdx = 0]
       ELSE /\ log' = log
            /\ run' = [run EXCEPT !.pc = "tile", !.i = @ + 1]
    /\ UNCHANGED <<grid, ignoredGrid, ret>>

Return ==
    /\ run.pc = "tile" /\ run.i > Len(run.coords)
    /\ run' = [run EXCEPT !.pc = "done"]
    /\ UNCHANGED <<grid, ignoredGrid, ret, log>>

NextDraw ==
    \/ DrawCollisionDebugGeometry
    \/ SkipTile
    \/ BeginTile
    \/ Batch
    \/ Leftover
    \/ Return

\* The function is straight-line code run to completion: a step that can
\* be taken is taken.
SpecDraw == Init /\ [][NextDraw]_vars /\ WF_vars(NextDraw)

(***************************************************************************)
(* C15.  For every tile whose circle array has length 4n the batching loop *)
(* of drawCollisionDebugGeometry terminates and every circle is emitted    *)
(* exactly once, as one quad of the four vertices with offsets (-r,-r),    *)
(* (-r,r), (r,r), (r,-r); the batch vertex index never exceeds             *)
(* maxVerticesPerBatch (16384 in the program, 4096 circles); a             *)
(* draw is issued each time the batch becomes full and once more for a     *)
(* remainder that is not empty; each draw covers exactly the circles       *)
(* accumulated since the draw before it; and the batch index is 0 again    *)
(* when the tile is finished, so that no circle of a tile is drawn with    *)
(* the uniforms of another.                                                *)
(***************************************************************************)
Drawing == run.pc \in {"tile", "batch", "done"}

\* The quad the claim expects of circle k of tile i.
QuadOf(i, k) ==
    LET x == collisionCircleArrayTemp(i, 4 * k)
        y == collisionCircleArrayTemp(i, 4 * k + 1)
        r == collisionCircleArrayTemp(i, 4 * k + 2)
    IN  << <<x, y, -r, -r>>, <<x, y, -r, r>>, <<x, y, r, r>>, <<x, y, r, -r>> >>

\* The four vertices a draw reads for its quad q, through the index buffer.
DrawnQuad(d, q) ==
    LET ix == quadIndices(q)
    IN  <<d.data[ix[1]], d.data[ix[2]], d.data[ix[3]], d.data[ix[5]]>>

\* The circles of tile i drawn by the first j draws.
DrawnBy(i, j) ==
    LET S[m \in 0..j] ==
            IF m = 0 THEN 0
            ELSE S[m - 1] + (IF log[m].uniforms = i THEN log[m].vertexLength \div 4 ELSE 0)
    IN  S[j]

DrawsOf(i) == SelectSeq(log, LAMBDA d : d.uniforms = i)

\* Every draw is of whole quads within the buffer and shows, in order, the
\* circles of its own tile that no draw before it has shown.
DrawsCoverOnce ==
    \A j \in DOMAIN log :
        LET d == log[j]
        IN  /\ d.vertexLength \in 1..maxVerticesPerBatch
            /\ d.vertexLength % 4 = 0
            /\ d.primitiveLength = 2 * (d.vertexLength \div 4)
            /\ \A q \in 0..((d.vertexLength \div 4) - 1) :
                   DrawnQuad(d, q) = QuadOf(d.uniforms, DrawnBy(d.uniforms, j - 1) + q)

\* Inside a tile: every batch that became full has been drawn, and the
\* circles drawn and the circles in the batch are the circles read so far.
BatchInStep ==
    run.pc = "batch" =>
        /\ run.batchVertexIdx < maxVerticesPerBatch
        /\ 4 * DrawnBy(run.i, Len(log)) + run.batchVertexIdx = run.vertexOffset
        /\ \A d \in { log[j] : j \in DOMAIN log } :
               d.uniforms = run.i => d.vertexLength = maxVerticesPerBatch

\* A finished tile: all its circles are drawn, in full batches and one
\* draw for the remainder, and the batch index is 0 again.
TilesFinished ==
    run.pc \in {"tile", "done"} =>
        /\ run.i > 1 => run.batchVertexIdx = 0
        /\ \A i \in 1..(run.i - 1) :
               LET n == run.coords[i].circles
                   draws == DrawsOf(i)
               IN  /\ DrawnBy(i, Len(log)) = n
                   /\ Len(draws) = (n + maxCirclesPerBatch - 1) \div maxCirclesPerBatch
                   /\ \A k \in 1..(Len(draws) - 1) :
                          draws[k].vertexLength = maxVerticesPerBatch
        /\ \A j \in DOMAIN log : log[j].uniforms < run.i

DrawSafe ==
    Drawing =>
        /\ run.batchVertexIdx \in 0..maxVerticesPerBatch
        /\ DrawsCoverOnce
        /\ BatchInStep
        /\ TilesFinished

C15_BatchedDraws ==
    /\ []DrawSafe
    /\ (run.pc = "batch") ~> (run.pc = "tile")
    /\ (run.pc = "tile") ~> (run.pc = "done")

\* Two tiles are finished: the first filled one batch and left one circle
\* over, the second filled two batches exactly, and four draws were issued.
C15_Witness ==
    /\ run.pc = "done" /\ Len(run.coords) = 2
    /\ run.coords[1].circles = maxCirclesPerBatch + 1
    /\ run.coords[2].circles = 2 * maxCirclesPerBatch
    /\ Len(log) = 4
    /\ log[2].uniforms = 1 /\ log[2].vertexLength = 4
    /\ log[3].uniforms = 2

====
